---- MODULE Spec2Model ----
(***************************************************************************)
(* A model of dag.DAG (src/dag/__init__.py): an OrderedDict from node name *)
(* to a set of (dependent node, edge label) tuples, with its mutating      *)
(* methods, its queries, validate and topological_sort.                    *)
(*                                                                         *)
(* Node names and edge labels are Python str values; the label None is the *)
(* value None below.  The interpreter is CPython 3 (OrderedDict iteration  *)
(* detects a mutation, dict keeps insertion order).  The iteration order   *)
(* of a Python set is not fixed by the language: every loop over an edge   *)
(* set is modelled as a loop over any enumeration of the set.  Calls are    *)
(* made with graph=None, that is on self.graph, except in SpecSupplied.    *)
(***************************************************************************)
EXTENDS Integers, Sequences, FiniteSets, TLC

\* ------------------------------------------------------------------ bounds
MaxEdges == 3
MaxListLen == 2
None == "None"
Nodes == {"a", "b", "c"}
Labels == {None, "x"}

\* graph is self.graph; supplied is a graph object the caller owns and passes
\* as the graph argument.
VARIABLES graph, call, outcome, supplied
vars == <<graph, call, outcome, supplied>>

\* ------------------------------------------------------- Python containers
\* All enumerations of a finite set: the orders a loop over a set can take.
RECURSIVE Perms(_)
Perms(S) ==
  IF S = {} THEN {<<>>}
  ELSE UNION {{<<e>> \o p : p \in Perms(S \ {e})} : e \in S}

Range(s) == {s[i] : i \in 1..Len(s)}

\* OrderedDict(): order is the key order, edges maps each key to its set.
OrderedDict == [order |-> <<>>, edges |-> [k \in {} |-> {}]]

\* key in graph
Has(g, k) == k \in DOMAIN g.edges

\* graph[k] = v: a new key goes last, an existing key keeps its place.
SetItem(g, k, v) ==
  IF Has(g, k)
  THEN [order |-> g.order, edges |-> [g.edges EXCEPT ![k] = v]]
  ELSE [order |-> Append(g.order, k),
        edges |-> [x \in DOMAIN g.edges \cup {k} |->
                     IF x = k THEN v ELSE g.edges[x]]]

\* del graph[k] / graph.pop(k)
DelItem(g, k) ==
  [order |-> SelectSeq(g.order, LAMBDA x : x # k),
   edges |-> [x \in DOMAIN g.edges \ {k} |-> g.edges[x]]]

\* What a call leaves and how it ends: exc is "ok" or the exception's class.
Return(g, v) == [graph |-> g, exc |-> "ok", value |-> v]
Raise(g, e) == [graph |-> g, exc |-> e, value |-> None]

\* Truth value of a label in `if dependency_type:`: None and the empty str are
\* false, every other str is true.
truthy(dependency_type) == dependency_type \notin {None, ""}

\* ----------------------------------------------------------------- queries
\* A slip ind_nodes could have: only the unlabelled edges make a node dependent.
ind_nodes_unlabelled(g) ==
  LET dependent_nodes ==
        {e[1] : e \in {x \in UNION {g.edges[k] : k \in DOMAIN g.edges} : x[2] = None}}
  IN SelectSeq(g.order, LAMBDA node : node \notin dependent_nodes)

\* lines 197-205: the keys, in key order, that no edge of any key targets.
ind_nodes(g) ==
  LET dependent_nodes == {e[1] : e \in UNION {g.edges[k] : k \in DOMAIN g.edges}}
  IN SelectSeq(g.order, LAMBDA node : node \notin dependent_nodes)

\* A slip in_degree_of could have: only the unlabelled edges are counted.
in_degree_unlabelled(g) ==
  [u \in DOMAIN g.edges |->
     Cardinality({k \in DOMAIN g.edges : <<u, None>> \in g.edges[k]})]

\* topological_sort, lines 226-232: in_degree, or a KeyError on an edge whose
\* target is no key.
in_degree_of(g) ==
  [u \in DOMAIN g.edges |->
     Cardinality(UNION {{<<k, e>> : e \in {x \in g.edges[k] : x[1] = u}} :
                          k \in DOMAIN g.edges})]

in_degree_raises(g) ==
  \E k \in DOMAIN g.edges : \E e \in g.edges[k] : ~Has(g, e[1])

\* A slip visit could have: queue.append(v[0]), which makes the deque a stack.
RECURSIVE visit_stack(_, _, _)
visit_stack(vs, in_degree, queue) ==
  IF vs = <<>> THEN [in_degree |-> in_degree, queue |-> queue]
  ELSE LET v == Head(vs)
           d == [in_degree EXCEPT ![v[1]] = @ - 1]
       IN visit_stack(Tail(vs), d, IF d[v[1]] = 0 THEN Append(queue, v[1]) ELSE queue)

\* lines 243-246: one pass over graph[u] in the order vs.
RECURSIVE visit(_, _, _)
visit(vs, in_degree, queue) ==
  IF vs = <<>> THEN [in_degree |-> in_degree, queue |-> queue]
  ELSE LET v == Head(vs)
           d == [in_degree EXCEPT ![v[1]] = @ - 1]
       IN visit(Tail(vs), d, IF d[v[1]] = 0 THEN <<v[1]>> \o queue ELSE queue)

\* lines 239-246: the while loop; queue.pop() takes the right end and
\* queue.appendleft() adds at the left end.
RECURSIVE kahn(_, _, _, _)
kahn(g, in_degree, queue, l) ==
  IF queue = <<>> THEN {l}
  ELSE LET u == queue[Len(queue)]
           rest == SubSeq(queue, 1, Len(queue) - 1)
       IN UNION {LET st == visit(vs, in_degree, rest)
                 IN kahn(g, st.in_degree, st.queue, Append(l, u)) :
                 vs \in Perms(g.edges[u])}

\* lines 234-237: the seeds, appended left in key order.
RECURSIVE seed(_, _, _)
seed(order, in_degree, queue) ==
  IF order = <<>> THEN queue
  ELSE seed(Tail(order), in_degree,
            IF in_degree[Head(order)] = 0 THEN <<Head(order)>> \o queue ELSE queue)

\* A slip topological_sort could have: the order is returned whatever its length.
topological_sort_unchecked(g) ==
  IF \E k \in DOMAIN g.edges : \E e \in g.edges[k] : e[1] \notin DOMAIN g.edges
  THEN {[graph |-> g, exc |-> "KeyError", value |-> None]}
  ELSE {[graph |-> g, exc |-> "ok", value |-> l] :
          l \in kahn(g, in_degree_of(g), seed(g.order, in_degree_of(g), <<>>), <<>>)}

\* Every way topological_sort(graph) can end.
topological_sort(g) ==
  IF in_degree_raises(g) THEN {Raise(g, "KeyError")}
  ELSE {IF Len(l) = Len(g.order) THEN Return(g, l) ELSE Raise(g, "ValueError") :
          l \in kahn(g, in_degree_of(g), seed(g.order, in_degree_of(g), <<>>), <<>>)}

\* A slip validate could have: the sort consumes the graph it is given.
validate_consuming(g) ==
  IF Len(ind_nodes(g)) = 0
  THEN {Return(g, <<FALSE, "no independent nodes detected">>)}
  ELSE {IF r.exc = "ValueError"
        THEN Return(r.graph, <<FALSE, "failed topological sort">>)
        ELSE IF r.exc = "ok" THEN Return(OrderedDict, <<TRUE, "valid">>)
        ELSE r :
          r \in topological_sort(g)}

\* Every way validate(graph) can end.
validate(g) ==
  IF Len(ind_nodes(g)) = 0
  THEN {Return(g, <<FALSE, "no independent nodes detected">>)}
  ELSE {IF r.exc = "ValueError" THEN Return(r.graph, <<FALSE, "failed topological sort">>)
        ELSE IF r.exc = "ok" THEN Return(r.graph, <<TRUE, "valid">>)
        ELSE r :
          r \in topological_sort(g)}

\* predecessors, lines 111-121: the keys, in key order, with an edge to node;
\* a true label keeps only the edges that carry it.
predecessors(node, g, dependency_type) ==
  Return(g, SelectSeq(g.order, LAMBDA key :
                        \E e \in g.edges[key] :
                          e[1] = node /\ (truthy(dependency_type) => e[2] = dependency_type)))

\* downstream, lines 123-132: a list built from a loop over the edge set, or
\* list(set(...)) of the targets: any enumeration of the targets.
downstream(node, g, dependency_type) ==
  IF ~Has(g, node) THEN {Raise(g, "KeyError")}
  ELSE IF truthy(dependency_type)
  THEN {Return(g, l) :
          l \in Perms({e[1] : e \in {x \in g.edges[node] : x[2] = dependency_type}})}
  ELSE {Return(g, l) : l \in Perms({e[1] : e \in g.edges[node]})}

\* lines 148-151: the for loop over one node's downstreams.
RECURSIVE collect(_, _, _)
collect(downstreams, nodes, nodes_seen) ==
  IF downstreams = <<>> THEN [nodes |-> nodes, nodes_seen |-> nodes_seen]
  ELSE LET downstream_node == Head(downstreams)
       IN IF downstream_node \notin nodes_seen
          THEN collect(Tail(downstreams), Append(nodes, downstream_node),
                       nodes_seen \cup {downstream_node})
          ELSE collect(Tail(downstreams), nodes, nodes_seen)

\* lines 146-152: the while loop; it ends with nodes_seen or with the
\* exception of a downstream call.
RECURSIVE walk(_, _, _, _, _)
walk(nodes, i, nodes_seen, g, dependency_type) ==
  IF i > Len(nodes) THEN {[exc |-> "ok", nodes_seen |-> nodes_seen]}
  ELSE UNION {IF d.exc # "ok" THEN {[exc |-> d.exc, nodes_seen |-> nodes_seen]}
              ELSE LET c == collect(d.value, nodes, nodes_seen)
                   IN walk(c.nodes, i + 1, c.nodes_seen, g, dependency_type) :
                d \in downstream(nodes[i], g, dependency_type)}

\* all_downstreams, lines 134-158: the nodes seen, in the order
\* topological_sort(graph) gives them.
all_downstreams(node, g, dependency_type) ==
  UNION {IF w.exc # "ok" THEN {Raise(g, w.exc)}
         ELSE {IF s.exc # "ok" THEN s
               ELSE Return(g, SelectSeq(s.value, LAMBDA n : n \in w.nodes_seen)) :
                 s \in topological_sort(g)} :
           w \in walk(<<node>>, 1, {}, g, dependency_type)}

\* all_leaves, lines 160-164: the keys, in key order, with an empty edge set.
all_leaves(g) == Return(g, SelectSeq(g.order, LAMBDA key : g.edges[key] = {}))

\* ---------------------------------------------------------------- mutators
add_node(node_name, g) ==
  IF Has(g, node_name) THEN Raise(g, "KeyError")
  ELSE Return(SetItem(g, node_name, {}), None)

\* delete_node, lines 52-53: node_name in edges, for a str node_name and a
\* set of tuples, compares a str with tuples and is never true.
str_in_edges(node_name, edges) == FALSE

strip_edges(node_name, edges) ==
  IF str_in_edges(node_name, edges) THEN edges \ {node_name} ELSE edges

delete_node(node_name, g) ==
  IF ~Has(g, node_name) THEN Raise(g, "KeyError")
  ELSE LET popped == DelItem(g, node_name)
       IN Return([order |-> popped.order,
                  edges |-> [k \in DOMAIN popped.edges |->
                               strip_edges(node_name, popped.edges[k])]], None)

\* A slip add_edge could have: test_graph is the graph itself, not a copy, so
\* a rejected edge stays.
add_edge_uncopied(ind_node, dep_node, dependency_type, g) ==
  IF ~Has(g, ind_node) \/ ~Has(g, dep_node) THEN {Raise(g, "KeyError")}
  ELSE LET test_graph == [g EXCEPT !.edges[ind_node] = @ \cup {<<dep_node, dependency_type>>}]
       IN {IF v.exc # "ok" THEN Raise(test_graph, v.exc)
           ELSE IF v.value[1] THEN Return(test_graph, None)
           ELSE Raise(test_graph, "DAGValidationError") :
             v \in validate(test_graph)}

\* Every way add_edge can end: validate runs on a deep copy with the edge added.
add_edge(ind_node, dep_node, dependency_type, g) ==
  IF ~Has(g, ind_node) \/ ~Has(g, dep_node) THEN {Raise(g, "KeyError")}
  ELSE LET test_graph == [g EXCEPT !.edges[ind_node] = @ \cup {<<dep_node, dependency_type>>}]
       IN {IF v.exc # "ok" THEN Raise(g, v.exc)
           ELSE IF v.value[1] THEN Return(test_graph, None)
           ELSE Raise(g, "DAGValidationError") :
             v \in validate(test_graph)}

delete_edge(ind_node, dep_node, dependency_type, g) ==
  IF ~Has(g, ind_node) \/ <<dep_node, dependency_type>> \notin g.edges[ind_node]
  THEN Raise(g, "KeyError")
  ELSE Return([g EXCEPT !.edges[ind_node] = @ \ {<<dep_node, dependency_type>>}], None)

\* rename_edges, lines 95-109, over graph.items() of an OrderedDict: once the
\* loop body has added or deleted a key, the next step of the iterator raises
\* RuntimeError, unless the iterator was already at its end.  In the else
\* branch every edge is a tuple, list(zip(*tuple_edges))[0] raises IndexError
\* for an empty edge set, and the inner loop only rebinds its own variable.
RECURSIVE rename_loop(_, _, _, _, _)
rename_loop(order, i, old_node_name, new_node_name, g) ==
  IF i > Len(order) THEN Return(g, None)
  ELSE LET node == order[i]
           edges == g.edges[node]
       IN IF node = old_node_name
          THEN LET moved == DelItem(SetItem(g, new_node_name, edges), old_node_name)
               IN IF i = Len(order) THEN Return(moved, None)
                  ELSE Raise(moved, "RuntimeError")
          ELSE LET g1 == IF str_in_edges(old_node_name, edges)
                         THEN SetItem(g, node, (edges \ {old_node_name}) \cup {new_node_name})
                         ELSE g
                   tuple_edges == g1.edges[node]
               IN IF tuple_edges = {} THEN Raise(g1, "IndexError")
                  ELSE rename_loop(order, i + 1, old_node_name, new_node_name, g1)

rename_edges(old_node_name, new_node_name, g) ==
  rename_loop(g.order, 1, old_node_name, new_node_name, g)

\* ---------------------------------------------------------------- from_dict
\* A description is the sequence of the dict's (key, value) items in iteration
\* order.  A value is [islist, items]; an item is [tuple, elems]: a tuple with
\* its elements, or a bare str (tuple = FALSE, elems = <<the str>>).
Bare(n) == [tuple |-> FALSE, elems |-> <<n>>]
Tup(es) == [tuple |-> TRUE, elems |-> es]
List(items) == [islist |-> TRUE, items |-> items]
NotAList == [islist |-> FALSE, items |-> <<>>]

\* repr() of a tuple element, and str() of a list item.
py_repr(e) == IF e = None THEN "None" ELSE "'" \o e \o "'"

RECURSIVE py_join(_)
py_join(es) ==
  IF Len(es) = 1 THEN py_repr(es[1]) ELSE py_repr(es[1]) \o ", " \o py_join(Tail(es))

py_str(dep_node) ==
  IF ~dep_node.tuple THEN dep_node.elems[1]
  ELSE IF Len(dep_node.elems) = 0 THEN "()"
  ELSE IF Len(dep_node.elems) = 1 THEN "(" \o py_repr(dep_node.elems[1]) \o ",)"
  ELSE "(" \o py_join(dep_node.elems) \o ")"

\* lines 188-189: the message is formatted before ValueError is built, with
\* one argument for two %s: the % raises TypeError.
long_tuple_error == "TypeError"

\* lines 185-191 for one list item: the first if, then the second if/else.
from_dict_item(ind_node, dep_node, g) ==
  LET first == IF dep_node.tuple /\ Len(dep_node.elems) = 2
               THEN add_edge(ind_node, dep_node.elems[1], dep_node.elems[2], g)
               ELSE {Return(g, None)}
  IN UNION {IF r.exc # "ok" THEN {r}
            ELSE IF dep_node.tuple /\ Len(dep_node.elems) > 2
            THEN {Raise(r.graph, long_tuple_error)}
            ELSE add_edge(ind_node, py_str(dep_node), None, r.graph) :
              r \in first}

RECURSIVE from_dict_items(_, _, _)
from_dict_items(ind_node, dep_nodes, g) ==
  IF dep_nodes = <<>> THEN {Return(g, None)}
  ELSE UNION {IF r.exc # "ok" THEN {r}
              ELSE from_dict_items(ind_node, Tail(dep_nodes), r.graph) :
                r \in from_dict_item(ind_node, Head(dep_nodes), g)}

RECURSIVE from_dict_edges(_, _)
from_dict_edges(items, g) ==
  IF items = <<>> THEN {Return(g, None)}
  ELSE LET ind_node == Head(items)[1]
           dep_nodes == Head(items)[2]
       IN IF ~dep_nodes.islist THEN {Raise(g, "TypeError")}
          ELSE UNION {IF r.exc # "ok" THEN {r}
                      ELSE from_dict_edges(Tail(items), r.graph) :
                        r \in from_dict_items(ind_node, dep_nodes.items, g)}

RECURSIVE from_dict_nodes(_, _)
from_dict_nodes(items, g) ==
  IF items = <<>> THEN Return(g, None)
  ELSE LET r == add_node(Head(items)[1], g)
       IN IF r.exc # "ok" THEN r ELSE from_dict_nodes(Tail(items), r.graph)

from_dict(graph_dict) ==
  LET nodes == from_dict_nodes(graph_dict, OrderedDict)
  IN IF nodes.exc # "ok" THEN {nodes} ELSE from_dict_edges(graph_dict, nodes.graph)

\* ------------------------------------------------------------- descriptions
\* The lists of at most n items drawn from a set of items.
RECURSIVE ListsUpTo(_, _)
ListsUpTo(items, n) ==
  IF n = 0 THEN {<<>>}
  ELSE LET shorter == ListsUpTo(items, n - 1)
       IN shorter \cup {Append(l, i) : l \in shorter, i \in items}

\* The dicts whose keys are one or two of the description nodes, in either
\* order, or none, with values drawn from a set of values.
DescNodes == {"a", "b"}

DictsOver(values) ==
  {<<>>}
  \cup {<<<<k, v>>>> : k \in DescNodes, v \in values}
  \cup {<<<<k1, v1>>, <<k2, v2>>>> :
          <<k1, k2>> \in {p \in DescNodes \X DescNodes : p[1] # p[2]},
          <<v1, v2>> \in values \X values}

\* The descriptions passed between other calls: lists of at most one bare target.
SmallDescs == DictsOver({List(l) : l \in ListsUpTo({Bare(n) : n \in DescNodes}, 1)})

\* ------------------------------------------------------------------ actions
NoCall == [op |-> "init", args |-> <<>>]

Init ==
  /\ graph = OrderedDict
  /\ call = NoCall
  /\ outcome = [exc |-> "ok", value |-> None]
  /\ supplied = OrderedDict

Finish(op, args, r) ==
  /\ graph' = r.graph
  /\ call' = [op |-> op, args |-> args]
  /\ outcome' = [exc |-> r.exc, value |-> r.value]
  /\ supplied' = supplied

NumEdges(g) == Cardinality(UNION {{<<k, e>> : e \in g.edges[k]} : k \in DOMAIN g.edges})

AddNode ==
  \E n \in Nodes : Finish("add_node", <<n>>, add_node(n, graph))

DeleteNode ==
  \E n \in Nodes : Finish("delete_node", <<n>>, delete_node(n, graph))

\* The model stops adding edges at MaxEdges; a call that adds none is not capped.
EdgeRoom(g, u, v, t) ==
  IF Has(g, u) /\ <<v, t>> \notin g.edges[u] THEN NumEdges(g) < MaxEdges ELSE TRUE

AddEdge ==
  \E u \in Nodes, v \in Nodes, t \in Labels :
    /\ EdgeRoom(graph, u, v, t)
    /\ \E r \in add_edge(u, v, t, graph) : Finish("add_edge", <<u, v, t>>, r)

DeleteEdge ==
  \E u \in Nodes, v \in Nodes, t \in Labels :
    Finish("delete_edge", <<u, v, t>>, delete_edge(u, v, t, graph))

RenameEdges ==
  \E o \in Nodes, n \in Nodes :
    Finish("rename_edges", <<o, n>>, rename_edges(o, n, graph))

ResetGraph ==
  Finish("reset_graph", <<>>, Return(OrderedDict, None))

FromDict ==
  \E d \in SmallDescs : \E r \in from_dict(d) : Finish("from_dict", <<d>>, r)

Validate ==
  \E r \in validate(graph) : Finish("validate", <<>>, r)

TopologicalSort ==
  \E r \in topological_sort(graph) : Finish("topological_sort", <<>>, r)

\* The labels a query is called with: those of the edges and the empty str.
QueryLabels == Labels \cup {""}

Predecessors ==
  \E n \in Nodes, t \in QueryLabels :
    Finish("predecessors", <<n, t>>, predecessors(n, graph, t))

AllDownstreams ==
  \E n \in Nodes, t \in QueryLabels :
    \E r \in all_downstreams(n, graph, t) : Finish("all_downstreams", <<n, t>>, r)

AllLeaves ==
  Finish("all_leaves", <<>>, all_leaves(graph))

IndNodes ==
  Finish("ind_nodes", <<>>, Return(graph, ind_nodes(graph)))

Next ==
  \/ AddNode
  \/ DeleteNode
  \/ AddEdge
  \/ DeleteEdge
  \/ RenameEdges
  \/ ResetGraph
  \/ FromDict
  \/ Validate
  \/ TopologicalSort

Spec == Init /\ [][Next]_vars

\* --------------------------------------------------- the four editing calls
\* The graphs that add_node, delete_node, add_edge and delete_edge reach from
\* the empty graph, with the queries predecessors, all_leaves and ind_nodes.
NextEdit ==
  \/ AddNode
  \/ DeleteNode
  \/ AddEdge
  \/ DeleteEdge
  \/ Predecessors
  \/ AllLeaves
  \/ IndNodes

SpecEdit == Init /\ [][NextEdit]_vars

\* ------------------------------------------------------ the queries alone
\* validate(graph), topological_sort(graph) and ind_nodes(graph) take any
\* mapping the caller supplies: here every graph of at most MaxEdges edges whose targets are keys.
RECURSIVE SubsetsUpTo(_, _)
SubsetsUpTo(S, n) ==
  IF n = 0 THEN {{}}
  ELSE LET smaller == SubsetsUpTo(S, n - 1)
       IN smaller \cup {x \cup {e} : x \in smaller, e \in S}

GraphOf(order, E) ==
  [order |-> order,
   edges |-> [k \in Range(order) |-> {<<e[2], e[3]>> : e \in {x \in E : x[1] = k}}]]

SuppliedGraphs ==
  UNION {{GraphOf(order, E) :
            E \in SubsetsUpTo(Range(order) \X Range(order) \X Labels, MaxEdges)} :
           order \in UNION {Perms(S) : S \in SUBSET Nodes}}

InitQuery ==
  /\ graph \in SuppliedGraphs
  /\ call = NoCall
  /\ outcome = [exc |-> "ok", value |-> None]
  /\ supplied = OrderedDict

NextQuery ==
  \/ Validate
  \/ TopologicalSort
  \/ IndNodes

SpecQuery == InitQuery /\ [][NextQuery]_vars

\* topological_sort(graph) on every graph of at most MaxEdges unlabelled
\* edges over up to four nodes: enough for two nodes to wait in the queue
\* while two others are unblocked one after the other.
SortNodes == Nodes \cup {"d"}

\* The edge sets of at most MaxEdges unlabelled edges between the keys of order.
SortEdges(order) ==
  {E \in SUBSET (Range(order) \X Range(order) \X {None}) : Cardinality(E) <= MaxEdges}

InitSort ==
  /\ \E order \in UNION {Perms(S) : S \in SUBSET SortNodes} :
       \E E \in SortEdges(order) : graph = GraphOf(order, E)
  /\ call = NoCall
  /\ outcome = [exc |-> "ok", value |-> None]
  /\ supplied = OrderedDict

NextSort == TopologicalSort

SpecSort == InitSort /\ [][NextSort]_vars

\* all_downstreams(node, graph, dependency_type) on the same supplied graphs.
NextDownstream == AllDownstreams

SpecDownstream == InitQuery /\ [][NextDownstream]_vars

\* ----------------------------------------------------------- from_dict alone
\* from_dict as the first call on a graph that an earlier import has left,
\* over every description with lists of at most MaxListLen items: bare
\* targets, (target, label) pairs and tuples of length 0, 1 and 3.
ImportItems ==
  {Bare("a"), Bare("b"), Tup(<<"b", "x">>), Tup(<<"b">>), Tup(<<"a", "x", "x">>),
   Tup(<<>>)}

ImportDescs ==
  DictsOver({NotAList} \cup {List(l) : l \in ListsUpTo(ImportItems, MaxListLen)})

PriorGraphs ==
  {OrderedDict} \cup {r.graph : r \in UNION {from_dict(d) : d \in SmallDescs}}

InitImport ==
  /\ graph \in PriorGraphs
  /\ call = NoCall
  /\ outcome = [exc |-> "ok", value |-> None]
  /\ supplied = OrderedDict

Import ==
  /\ call.op = "init"
  /\ \E d \in ImportDescs : \E r \in from_dict(d) : Finish("from_dict", <<d>>, r)

NextImport == Import

SpecImport == InitImport /\ [][NextImport]_vars

\* ------------------------------------------- calls with a graph argument
\* `if not graph: graph = self.graph` in add_node, delete_node, add_edge,
\* delete_edge and rename_edges: a mapping is false when it is empty.
not_graph(g) == Len(g.order) = 0

\* The graph the body of such a method works on when it is passed supplied.
Target == IF not_graph(supplied) THEN graph ELSE supplied

\* A supplied graph is used for one call, the first.
FinishSupplied(op, args, r) ==
  /\ call.op = "init"
  /\ IF not_graph(supplied)
     THEN graph' = r.graph /\ supplied' = supplied
     ELSE supplied' = r.graph /\ graph' = graph
  /\ call' = [op |-> op, args |-> args]
  /\ outcome' = [exc |-> r.exc, value |-> r.value]

AddNodeTo ==
  \E n \in Nodes : FinishSupplied("add_node", <<n>>, add_node(n, Target))

DeleteNodeFrom ==
  \E n \in Nodes : FinishSupplied("delete_node", <<n>>, delete_node(n, Target))

AddEdgeTo ==
  \E u \in Nodes, v \in Nodes, t \in Labels :
    \E r \in add_edge(u, v, t, Target) : FinishSupplied("add_edge", <<u, v, t>>, r)

DeleteEdgeFrom ==
  \E u \in Nodes, v \in Nodes, t \in Labels :
    FinishSupplied("delete_edge", <<u, v, t>>, delete_edge(u, v, t, Target))

RenameEdgesIn ==
  \E o \in Nodes, n \in Nodes :
    FinishSupplied("rename_edges", <<o, n>>, rename_edges(o, n, Target))

\* One call with the graph argument, on a live graph and a supplied graph
\* that an import has built; the supplied graph can be empty.
InitSupplied ==
  /\ graph \in PriorGraphs
  /\ supplied \in PriorGraphs
  /\ call = NoCall
  /\ outcome = [exc |-> "ok", value |-> None]

NextSupplied ==
  \/ AddNodeTo
  \/ DeleteNodeFrom
  \/ AddEdgeTo
  \/ DeleteEdgeFrom
  \/ RenameEdgesIn

SpecSupplied == InitSupplied /\ [][NextSupplied]_vars

\* ------------------------------------------------------- graph vocabulary
Keys(g) == DOMAIN g.edges

\* The keys one edge away from n.
Succ(g, n) == {e[1] : e \in g.edges[n]} \cap Keys(g)

RECURSIVE Closure(_, _)
Closure(g, S) ==
  LET T == S \cup UNION {Succ(g, n) : n \in S}
  IN IF T = S THEN S ELSE Closure(g, T)

\* The keys reachable from n by one or more edges.
Descendants(g, n) == Closure(g, Succ(g, n))

\* The keys one edge away from n, by edges carrying the label when one is given.
SuccBy(g, n, t) ==
  {e[1] : e \in {x \in g.edges[n] : t # None => x[2] = t}} \cap Keys(g)

RECURSIVE ClosureBy(_, _, _)
ClosureBy(g, S, t) ==
  LET T == S \cup UNION {SuccBy(g, n, t) : n \in S}
  IN IF T = S THEN S ELSE ClosureBy(g, T, t)

\* The keys reachable from n by one or more edges, each carrying the label
\* when one is given.
Reachable(g, n, t) == ClosureBy(g, SuccBy(g, n, t), t)

NoDuplicates(l) == \A i \in 1..Len(l), j \in 1..Len(l) : l[i] = l[j] => i = j

HasCycle(g) == \E n \in Keys(g) : n \in Descendants(g, n)

NoDangling(g) == \A k \in Keys(g) : \A e \in g.edges[k] : e[1] \in Keys(g)

Pos(s, x) == CHOOSE i \in 1..Len(s) : s[i] = x

\* l lists every key once and every edge goes from an earlier to a later key.
IsTopologicalOrder(l, g) ==
  /\ Len(l) = Cardinality(Keys(g))
  /\ Range(l) = Keys(g)
  /\ \A k \in Keys(g) : \A e \in g.edges[k] :
        e[1] \in Keys(g) /\ Pos(l, k) < Pos(l, e[1])

Acyclic(g) == \E l \in Perms(Keys(g)) : IsTopologicalOrder(l, g)

Mutators ==
  {"add_node", "delete_node", "add_edge", "delete_edge", "rename_edges",
   "reset_graph", "from_dict"}

\* The edge u -> v would close a cycle: it is a self-loop, or v already leads to u.
WouldCreateCycle(g, u, v) == u = v \/ u \in Descendants(g, v)

\* No key of g is free of incoming edges.
NoIndependentNode(g) ==
  \A n \in Keys(g) : \E k \in Keys(g) : \E e \in g.edges[k] : e[1] = n

\* The keys that no edge targets, in key order.
WithoutIncoming(g) ==
  SelectSeq(g.order, LAMBDA n : \A k \in Keys(g) : \A e \in g.edges[k] : e[1] # n)

Max(S) == CHOOSE x \in S : \A y \in S : y <= x

\* The step of the sort l at which the in-degree of n is zero: 0 for a key
\* without incoming edges, else the place in l of the last of its sources.
UnblockedAt(l, g, n) ==
  Max({0} \cup {Pos(l, k) : k \in {x \in Keys(g) : \E e \in g.edges[x] : e[1] = n}})

SortExample ==
  GraphOf(<<"a", "b", "c">>, {<<"b", "a", None>>, <<"c", "b", None>>})

HasParallelEdges(g) ==
  \E k \in Keys(g) : \E e1 \in g.edges[k], e2 \in g.edges[k] :
    e1[1] = e2[1] /\ e1[2] # e2[2]

\* --------------------------------------------------- description vocabulary
DescOrder(d) == [i \in 1..Len(d) |-> d[i][1]]

DescKeys(d) == {d[i][1] : i \in 1..Len(d)}

DescItems(d) == UNION {Range(d[i][2].items) : i \in 1..Len(d)}

\* The (source, target, label) edges a description describes: a bare target is
\* unlabelled, a pair carries its label.
DescEdges(d) ==
  UNION {{<<d[i][1], it.elems[1], IF it.tuple THEN it.elems[2] ELSE None>> :
            it \in {x \in Range(d[i][2].items) : x.tuple => Len(x.elems) = 2}} :
           i \in 1..Len(d)}

DescribedGraph(d) == GraphOf(DescOrder(d), DescEdges(d))

\* Every value is a list of bare targets or pairs whose targets are keys.
WellFormedDesc(d) ==
  /\ \A i \in 1..Len(d) : d[i][2].islist
  /\ \A it \in DescItems(d) :
        (it.tuple => Len(it.elems) = 2) /\ it.elems[1] \in DescKeys(d)

BareDesc(d) == WellFormedDesc(d) /\ \A it \in DescItems(d) : ~it.tuple

\* Some item is a tuple of a length other than 2, or some value is no list.
MalformedDesc(d) ==
  \/ \E i \in 1..Len(d) : ~d[i][2].islist
  \/ \E it \in DescItems(d) : it.tuple /\ Len(it.elems) # 2

\* The (source, target) entries of a description of bare targets, in the
\* order the dict and its lists give them.
RECURSIVE Flatten(_)
Flatten(d) ==
  IF d = <<>> THEN <<>>
  ELSE [j \in 1..Len(Head(d)[2].items) |-> <<Head(d)[1], Head(d)[2].items[j].elems[1]>>]
       \o Flatten(Tail(d))

PrefixEdges(F, n) == {<<F[j][1], F[j][2], None>> : j \in 1..n}

\* The description's keys with the edges of the entries that come before the
\* first entry closing a cycle.
PrefixGraph(d) ==
  LET F == Flatten(d)
      first == CHOOSE i \in 1..Len(F) :
                 /\ HasCycle(GraphOf(DescOrder(d), PrefixEdges(F, i)))
                 /\ \A j \in 1..(i - 1) : ~HasCycle(GraphOf(DescOrder(d), PrefixEdges(F, j)))
  IN GraphOf(DescOrder(d), PrefixEdges(F, first - 1))

PassesValidate(g) == \A r \in validate(g) : r.exc = "ok" /\ r.value = <<TRUE, "valid">>

InvalidDescription == {"TypeError", "ValueError"}

CycleExample == <<<<"a", List(<<Bare("b")>>)>>, <<"b", List(<<Bare("a")>>)>>>>

\* ------------------------------------------------------------------ claims
\* C1: when add_edge(u, v, label) is called on two existing nodes (u = v
\* included) and the edge would close a cycle, the call fails with the
\* cycle-detected error (DAGValidationError) and the live graph after the call
\* equals the graph before it.
C1_CycleRejectedUnchanged ==
  [][(/\ call'.op = "add_edge"
      /\ Has(graph, call'.args[1]) /\ Has(graph, call'.args[2])
      /\ WouldCreateCycle(graph, call'.args[1], call'.args[2]))
     => (outcome'.exc = "DAGValidationError" /\ graph' = graph)]_vars

\* C2: whenever a mutating call (add_node, delete_node, add_edge, delete_edge,
\* rename, reset, import) has returned successfully, the graph has no cycle
\* and no self-loop.
C2_AcyclicAfterSuccess ==
  (call.op \in Mutators /\ outcome.exc = "ok") => ~HasCycle(graph)

\* C3: after delete_node(n) has succeeded, n is no key and no remaining node
\* has an edge, of any label, whose target is n.
C3_DeleteNodeStripsEdges ==
  (call.op = "delete_node" /\ outcome.exc = "ok")
    => /\ ~Has(graph, call.args[1])
       /\ \A k \in Keys(graph) : \A e \in graph.edges[k] : e[1] # call.args[1]

\* C4: for every acyclic graph, topological_sort returns a sequence that
\* lists every node exactly once and in which the source of every edge, of
\* any label, comes strictly before its target.
C4_SortIsTopologicalOrder ==
  (call.op = "topological_sort" /\ Acyclic(graph))
    => (outcome.exc = "ok" /\ IsTopologicalOrder(outcome.value, graph))

C4_Witness ==
  /\ call.op = "topological_sort"
  /\ Acyclic(graph)
  /\ outcome.exc = "ok"
  /\ Len(graph.order) = 3
  /\ NumEdges(graph) = MaxEdges
  /\ HasParallelEdges(graph)

\* C5: for every graph whose edge targets are all nodes, topological_sort
\* fails with the not-acyclic error (ValueError) exactly when the graph has a
\* cycle, and it returns an order only for a graph without one.
C5_SortFailsIffCycle ==
  (call.op = "topological_sort" /\ NoDangling(graph))
    => /\ outcome.exc \in {"ok", "ValueError"}
       /\ (outcome.exc = "ValueError") <=> HasCycle(graph)

C5_Witness ==
  /\ call.op = "topological_sort"
  /\ NoDangling(graph)
  /\ HasCycle(graph)
  /\ Len(ind_nodes(graph)) > 0
  /\ outcome.exc = "ValueError"

\* C6: validate returns (False, "no independent nodes detected") only for a
\* nonempty graph without an independent node; otherwise it returns (False,
\* "failed topological sort") when topological_sort fails and (True, "valid")
\* when it succeeds; for the empty graph it returns (True, "valid").
C6_ValidateVerdict ==
  call.op = "validate"
    => /\ outcome.exc = "ok"
       /\ outcome.value =
            IF Keys(graph) # {} /\ NoIndependentNode(graph)
            THEN <<FALSE, "no independent nodes detected">>
            ELSE IF \E r \in topological_sort(graph) : r.exc # "ok"
            THEN <<FALSE, "failed topological sort">>
            ELSE <<TRUE, "valid">>

\* C7: a call of validate leaves the graph (keys, key order, edge sets) as it
\* was, and a call of validate right after another ends as the first did.
C7_ValidateIsPure ==
  [][/\ call'.op = "validate" => graph' = graph
     /\ (call.op = "validate" /\ call'.op = "validate") => outcome' = outcome]_vars

C7_Witness ==
  /\ call.op = "validate"
  /\ outcome.exc = "ok"
  /\ outcome.value = <<TRUE, "valid">>
  /\ NumEdges(graph) >= 2

C9_ImportBuildsDescribedGraph ==
  (call.op = "from_dict" /\ WellFormedDesc(call.args[1])
     /\ ~HasCycle(DescribedGraph(call.args[1])))
    => (outcome.exc = "ok" /\ graph = DescribedGraph(call.args[1]))

\* C10: the import of a description in which some list item is a tuple of a
\* length other than 2, or some value is not a list, fails with the
\* invalid-description error (TypeError or ValueError) and with no other.
C10_MalformedIsInvalidDescription ==
  (call.op = "from_dict" /\ MalformedDesc(call.args[1]))
    => outcome.exc \in InvalidDescription

\* The edge set E with every edge to old retargeted to new, label kept.
Retargeted(E, old, new) == {IF e[1] = old THEN <<new, e[2]>> ELSE e : e \in E}

\* C11: rename_edges(old, new) with old a key and new no key returns
\* successfully, and afterwards old is no key, new is a key holding old's
\* former edge set, every edge (old, label) of any other node has become
\* (new, label), and no other edge has changed.  The formula is the second
\* half: what the graph is after such a call has returned successfully.
C11_RenameRetargetsEdges ==
  [][(/\ call'.op = "rename_edges"
      /\ Has(graph, call'.args[1]) /\ ~Has(graph, call'.args[2])
      /\ outcome'.exc = "ok")
     => (/\ Keys(graph') = (Keys(graph) \ {call'.args[1]}) \cup {call'.args[2]}
         /\ graph'.edges[call'.args[2]] = graph.edges[call'.args[1]]
         /\ \A k \in Keys(graph) \ {call'.args[1]} :
               graph'.edges[k] = Retargeted(graph.edges[k], call'.args[1], call'.args[2]))]_vars

\* C12: rename_edges(old, new) with old no key returns without error and
\* leaves the graph as it was, whatever the graph is.
C12_RenameAbsentIsNoOp ==
  [][(call'.op = "rename_edges" /\ ~Has(graph, call'.args[1]))
     => (outcome'.exc = "ok" /\ graph' = graph)]_vars

\* C13: for every acyclic graph, every node n of it and every label or none,
\* all_downstreams(n, label) returns, without duplicates, exactly the nodes
\* reachable from n by one or more edges, each carrying the label when one is
\* given; n is not among them, and they come in the order of a result of
\* topological_sort.
C13_AllDownstreamsIsReachable ==
  (call.op = "all_downstreams" /\ Acyclic(graph) /\ Has(graph, call.args[1]))
    => /\ outcome.exc = "ok"
       /\ NoDuplicates(outcome.value)
       /\ Range(outcome.value) = Reachable(graph, call.args[1], call.args[2])
       /\ call.args[1] \notin Range(outcome.value)
       /\ \E s \in topological_sort(graph) :
             /\ s.exc = "ok"
             /\ outcome.value = SelectSeq(s.value, LAMBDA n : n \in Range(outcome.value))

\* C14: an order returned by topological_sort begins with the nodes without
\* incoming edges in key order, and a node whose in-degree reached zero at an
\* earlier step never comes after one whose in-degree reached zero later;
\* for the keys a, b, c with edges b -> a and c -> b the order is c, b, a.
C14_SortIsFifo ==
  (call.op = "topological_sort" /\ outcome.exc = "ok")
    => LET l == outcome.value
       IN /\ SubSeq(l, 1, Len(WithoutIncoming(graph))) = WithoutIncoming(graph)
          /\ \A i \in 1..Len(l), j \in 1..Len(l) :
                i < j => UnblockedAt(l, graph, l[i]) <= UnblockedAt(l, graph, l[j])
          /\ graph = SortExample => l = <<"c", "b", "a">>

\* Two nodes without incoming edges, each unblocking one of two others: the
\* one unblocked first comes third, the other last.
C14_Witness ==
  /\ call.op = "topological_sort"
  /\ outcome.exc = "ok"
  /\ Len(outcome.value) = 4
  /\ Len(WithoutIncoming(graph)) = 2
  /\ UnblockedAt(outcome.value, graph, outcome.value[3]) = 1
  /\ UnblockedAt(outcome.value, graph, outcome.value[4]) = 2

\* C15: predecessors(node, label) never fails and returns exactly the nodes
\* with an edge to node (carrying the label when one is given); for a node
\* that is no key, one deleted earlier included, it returns the empty list.
\* The formula is the last part: the result for a node that is no key.
C15_PredecessorsOfAbsentNode ==
  (call.op = "predecessors" /\ ~Has(graph, call.args[1]))
    => (outcome.exc = "ok" /\ outcome.value = <<>>)

\* C16: a call other than the import that ends in an error (add_node,
\* delete_node, add_edge, delete_edge, rename_edges or a query) leaves the
\* graph exactly as it was before the call.
C16_FailedCallLeavesGraph ==
  [][(call'.op # "from_dict" /\ outcome'.exc # "ok") => graph' = graph]_vars

\* C17: a mutating call (add_node, delete_node, add_edge, delete_edge,
\* rename_edges) that is passed a graph of the caller, an empty one included,
\* changes at most that graph and leaves the live graph as it was.
C17_SuppliedGraphOnly ==
  [][call'.op \in {"add_node", "delete_node", "add_edge", "delete_edge", "rename_edges"}
       => graph' = graph]_vars

\* C18: ind_nodes returns, in key order and without duplicates, exactly the
\* nodes that are the target of no edge, whatever the edge's label.
C18_IndNodesAreUntargeted ==
  call.op = "ind_nodes"
    => /\ outcome.exc = "ok"
       /\ NoDuplicates(outcome.value)
       /\ Range(outcome.value)
            = {n \in Keys(graph) : \A k \in Keys(graph) : \A e \in graph.edges[k] : e[1] # n}
       /\ \A i \in 1..Len(outcome.value), j \in 1..Len(outcome.value) :
             i < j => Pos(graph.order, outcome.value[i]) < Pos(graph.order, outcome.value[j])

\* Two independent nodes, not in alphabetical order, and a node whose only
\* incoming edge is labelled.
C18_Witness ==
  /\ call.op = "ind_nodes"
  /\ graph.order = <<"c", "b", "a">>
  /\ graph.edges["a"] = {<<"b", "x">>}
  /\ graph.edges["c"] = {}
  /\ outcome.value = <<"c", "a">>

\* C19: in every state that add_node, delete_node, add_edge and delete_edge
\* reach, add_edge(u, v, label) with u and v both keys and no cycle closed by
\* the edge succeeds and leaves the graph with (v, label) added to u's edge
\* set and nothing else changed (nothing at all when the edge was there).
C19_AddEdgeSucceeds ==
  [][(/\ call'.op = "add_edge"
      /\ Has(graph, call'.args[1]) /\ Has(graph, call'.args[2])
      /\ ~WouldCreateCycle(graph, call'.args[1], call'.args[2]))
     => (/\ outcome'.exc = "ok"
         /\ graph' = [graph EXCEPT !.edges[call'.args[1]] =
                                      @ \cup {<<call'.args[2], call'.args[3]>>}])]_vars

\* C20: in every reachable graph all_leaves returns, in key order, exactly
\* the nodes with an empty edge set, and when the graph is not empty neither
\* all_leaves nor ind_nodes returns the empty list.
C20_LeavesAndIndNodesExist ==
  /\ call.op = "all_leaves"
       => /\ outcome.exc = "ok"
          /\ outcome.value = SelectSeq(graph.order, LAMBDA n : graph.edges[n] = {})
          /\ Keys(graph) # {} => outcome.value # <<>>
  /\ (call.op = "ind_nodes" /\ Keys(graph) # {}) => outcome.value # <<>>
====
